---------------------------- MODULE Spec2Model ----------------------------
(***************************************************************************)
(* SFGF collision primitive: sfgf::Collider (Collider.hpp) and the two     *)
(* colliders kept by sfgf::Polygon (Polygon.hpp).                          *)
(*                                                                         *)
(* Numbers.  sf::Vector2f / sf::FloatRect hold floats.  A coordinate is    *)
(* modelled by its numerator over the fixed denominator Den, so the model  *)
(* value n stands for the float n / Den; sums and comparisons of such      *)
(* values are exact, a product of two of them is a numerator over Den*Den. *)
(* The float -> int conversion of Collider::lineIntersection's orientation *)
(* is modelled as C++ does it: truncation toward zero.  Rounding of float  *)
(* arithmetic is not modelled: the values used are exact in a float.       *)
(***************************************************************************)
EXTENDS Integers, Sequences, FiniteSets

VARIABLES
    a,                    \* a Collider (m_arr, m_globalBounds)
    b,                    \* a second Collider
    snap,                 \* history: a.m_arr as it was before the current run of applyTransform calls
    moves,                \* history: the translations applied to a since snap was taken
    args,                 \* the arguments of a pending call of a pure function
    res,                  \* <<v>> once the call has returned v, <<>> before
    sample_collider,      \* Polygon::sample_collider
    tranformed_collider,  \* Polygon::tranformed_collider
    owner,                \* the Polygon's current transform, GameObject::getTransform()
    hist                  \* history of the Polygon: last operation, sample before it, updates so far

vars == <<a, b, snap, moves, args, res, sample_collider, tranformed_collider, owner, hist>>

(***************************************************************************)
(* Bounds of the model.                                                    *)
(***************************************************************************)
\* Coordinates are multiples of 1 / Den.
Den == 2
\* Largest number of vertices of a collider.
MaxLen == 3
\* Largest number of consecutive applyTransform calls that are tracked.
MaxMoves == 2
\* Largest side of a rectangle, in whole units.
MaxSide == 10
\* The Polygon's update counter saturates here.
MaxUpdates == 2

(***************************************************************************)
(* Arithmetic helpers.                                                     *)
(***************************************************************************)
Max(x, y) == IF x >= y THEN x ELSE y
Min(x, y) == IF x <= y THEN x ELSE y
Abs(x) == IF x >= 0 THEN x ELSE -x

\* The int a float converts to: n / d truncated toward zero (d > 0).
ToInt(n, d) == IF n >= 0 THEN n \div d ELSE -((-n) \div d)

Vec(px, py) == [x |-> px, y |-> py]

(***************************************************************************)
(* Collider: m_globalBounds maintenance.                                   *)
(***************************************************************************)
RECURSIVE BoundsLoop(_, _, _, _)
BoundsLoop(arr, i, max, pos) ==
    IF i > Len(arr) THEN
        [left |-> pos.x, top |-> pos.y, width |-> max.x - pos.x, height |-> max.y - pos.y]
    ELSE
        LET p == arr[i] IN
        BoundsLoop(arr, i + 1,
                   Vec(IF p.x > max.x THEN p.x ELSE max.x, IF p.y > max.y THEN p.y ELSE max.y),
                   Vec(IF p.x < pos.x THEN p.x ELSE pos.x, IF p.y < pos.y THEN p.y ELSE pos.y))

\* updateGlobalBounds(): the box m_globalBounds is set to, computed from the vertices.
UpdateGlobalBounds(arr) ==
    BoundsLoop(arr, 1, Vec(0, 0), IF arr = <<>> THEN Vec(0, 0) ELSE arr[1])

\* A default-constructed sf::FloatRect.
ZeroRect == [left |-> 0, top |-> 0, width |-> 0, height |-> 0]

\* A default-constructed Collider.
EmptyCollider == [m_arr |-> <<>>, m_globalBounds |-> ZeroRect]

\* The value of a collider after pushBack(p).
PushBackOf(c, p) ==
    LET arr == Append(c.m_arr, p) IN
    [m_arr |-> arr, m_globalBounds |-> UpdateGlobalBounds(arr)]

\* The value of a collider after clear().
ClearOf(c) == [m_arr |-> <<>>, m_globalBounds |-> UpdateGlobalBounds(<<>>)]

\* sf::Transform::transformPoint for an affine transform with matrix m (row major) and offset t.
TransformPoint(t, p) ==
    Vec(t.m[1] * p.x + t.m[2] * p.y + t.t.x, t.m[3] * p.x + t.m[4] * p.y + t.t.y)

Translation(d) == [m |-> <<1, 0, 0, 1>>, t |-> d]

\* Faulty variant: std::transform stops one element early.
TransformAllButLast(arr, t) ==
    [i \in 1..Len(arr) |-> IF i < Len(arr) THEN TransformPoint(t, arr[i]) ELSE arr[i]]

\* std::transform over m_arr.
TransformAll(arr, t) == [i \in 1..Len(arr) |-> TransformPoint(t, arr[i])]

\* The value of a collider after applyTransform(t).
ApplyTransformOf(c, t) ==
    LET arr == TransformAll(c.m_arr, t) IN
    [m_arr |-> arr, m_globalBounds |-> UpdateGlobalBounds(arr)]

(***************************************************************************)
(* Collider: the queries.                                                  *)
(***************************************************************************)
\* Faulty variant: the second comparison is missing.
RectPrefilterOneSided(lhs, rhs) ==
    LET ltop == Abs(lhs.top)
        lleft == Abs(lhs.left)
        rtop == Abs(rhs.top)
        rleft == Abs(rhs.left)
    IN  IF lleft > rleft + rhs.width THEN FALSE
        ELSE IF ltop > rtop + rhs.height THEN FALSE
        ELSE IF ltop + lhs.height < rtop THEN FALSE
        ELSE TRUE

nonnegatively_dimensional_rect_intersection(lhs, rhs) ==
    LET ltop == Abs(lhs.top)
        lleft == Abs(lhs.left)
        rtop == Abs(rhs.top)
        rleft == Abs(rhs.left)
    IN  IF lleft > rleft + rhs.width THEN FALSE
        ELSE IF lleft + lhs.width < rleft THEN FALSE
        ELSE IF ltop > rtop + rhs.height THEN FALSE
        ELSE IF ltop + lhs.height < rtop THEN FALSE
        ELSE TRUE

\* sf::FloatRect::intersects, as Collider::collides calls it: the two boxes
\* share a region of positive area.
RectIntersects(r1, r2) ==
    LET r1MinX == Min(r1.left, r1.left + r1.width)
        r1MaxX == Max(r1.left, r1.left + r1.width)
        r1MinY == Min(r1.top, r1.top + r1.height)
        r1MaxY == Max(r1.top, r1.top + r1.height)
        r2MinX == Min(r2.left, r2.left + r2.width)
        r2MaxX == Max(r2.left, r2.left + r2.width)
        r2MinY == Min(r2.top, r2.top + r2.height)
        r2MaxY == Max(r2.top, r2.top + r2.height)
        interLeft == Max(r1MinX, r2MinX)
        interTop == Max(r1MinY, r2MinY)
        interRight == Min(r1MaxX, r2MaxX)
        interBottom == Min(r1MaxY, r2MaxY)
    IN  interLeft < interRight /\ interTop < interBottom

isOnSegment(p, q, r) ==
    /\ q.x <= Max(p.x, r.x)
    /\ q.x >= Min(p.x, r.x)
    /\ q.y <= Max(p.y, r.y)
    /\ q.y >= Min(p.y, r.y)

\* The float cross product, a numerator over Den * Den.
Cross(p, q, r) == (q.y - p.y) * (r.x - q.x) - (q.x - p.x) * (r.y - q.y)

orientation(p, q, r) ==
    LET val == ToInt(Cross(p, q, r), Den * Den) IN
    IF val = 0 THEN 0 ELSE IF val > 0 THEN 1 ELSE 2

\* Faulty variant: the special (collinear) cases are missing.
LineIntersectionGeneralOnly(p1, q1, p2, q2) ==
    LET o1 == orientation(p1, q1, p2)
        o2 == orientation(p1, q1, q2)
        o3 == orientation(p2, q2, p1)
        o4 == orientation(p2, q2, q1)
    IN  o1 # o2 /\ o3 # o4

lineIntersection(p1, q1, p2, q2) ==
    LET o1 == orientation(p1, q1, p2)
        o2 == orientation(p1, q1, q2)
        o3 == orientation(p2, q2, p1)
        o4 == orientation(p2, q2, q1)
    IN  IF o1 # o2 /\ o3 # o4 THEN TRUE
        ELSE IF \/ (o1 = 0 /\ isOnSegment(p1, p2, q1))
                \/ (o2 = 0 /\ isOnSegment(p1, q2, q1))
                \/ (o3 = 0 /\ isOnSegment(p2, p1, q2))
                \/ (o4 = 0 /\ isOnSegment(p2, q1, q2))
        THEN TRUE
        ELSE FALSE

\* arr with its first element pushed back (arr is not empty).
ClosedLoop(arr) == Append(arr, arr[1])

\* The double loop of Collider::intersects over the two closed loops.
EdgePairIntersects(arr, poly_arr) ==
    \E i \in 2..Len(arr) : \E j \in 2..Len(poly_arr) :
        lineIntersection(arr[i - 1], arr[i], poly_arr[j - 1], poly_arr[j])

intersects(c, poly) ==
    IF \/ ~nonnegatively_dimensional_rect_intersection(c.m_globalBounds, poly.m_globalBounds)
       \/ poly.m_arr = <<>>
       \/ c.m_arr = <<>>
    THEN FALSE
    ELSE EdgePairIntersects(ClosedLoop(c.m_arr), ClosedLoop(poly.m_arr))

\* One step of the loop of Collider::contains: the toggle for the edge (i, j).
\* The float test  point.x <= dx * (point.y - pti.y) / dy + pti.x  is taken
\* over the rationals, cleared of the divisor dy (not zero when the edge
\* straddles point.y).
EdgeToggles(pti, ptj, point) ==
    /\ (pti.y >= point.y) # (ptj.y >= point.y)
    /\ LET dy == ptj.y - pti.y
           lhs == (point.x - pti.x) * dy
           rhs == (ptj.x - pti.x) * (point.y - pti.y)
       IN  IF dy > 0 THEN lhs <= rhs ELSE lhs >= rhs

RECURSIVE ContainsLoop(_, _, _, _, _)
ContainsLoop(arr, point, i, j, c) ==
    IF i > Len(arr) THEN c
    ELSE ContainsLoop(arr, point, i + 1, i,
                      IF EdgeToggles(arr[i], arr[j], point) THEN ~c ELSE c)

\* Faulty variant: j starts at the first vertex, so the closing edge is never visited.
ContainsNoWrap(c, point) ==
    IF c.m_arr = <<>> THEN FALSE ELSE ContainsLoop(c.m_arr, point, 1, 1, FALSE)

contains(c, point) ==
    IF c.m_arr = <<>> THEN FALSE
    ELSE ContainsLoop(c.m_arr, point, 1, Len(c.m_arr), FALSE)

\* Faulty variant: the bounding-box rejection is missing.
CollidesNoReject(c, poly) ==
    IF intersects(c, poly) THEN TRUE
    ELSE \A k \in 1..Len(poly.m_arr) : contains(c, poly.m_arr[k])

collides(c, poly) ==
    IF ~RectIntersects(c.m_globalBounds, poly.m_globalBounds) THEN FALSE
    ELSE IF intersects(c, poly) THEN TRUE
    ELSE \A k \in 1..Len(poly.m_arr) : contains(c, poly.m_arr[k])

\* Collider::rectangle(size).
rectangle(size) ==
    PushBackOf(PushBackOf(PushBackOf(PushBackOf(EmptyCollider,
        Vec(0, 0)), Vec(size.x, 0)), size), Vec(0, size.y))

(***************************************************************************)
(* Values the variables hold when a specification does not use them.       *)
(***************************************************************************)
NoHist == [last |-> "none", before |-> EmptyCollider, updates |-> 0]
Identity == Translation(Vec(0, 0))

IdleMove == snap = <<>> /\ moves = <<>>
IdleCall == args = <<>> /\ res = <<>>
IdlePolygon ==
    /\ sample_collider = EmptyCollider
    /\ tranformed_collider = EmptyCollider
    /\ owner = Identity
    /\ hist = NoHist

(***************************************************************************)
(* Spec: two colliders, each mutated by pushBack, clear and applyTransform.*)
(***************************************************************************)
PairXs == {-3, 1, 2}
PairYs == {-2, 2}
PairGrid == [x : PairXs, y : PairYs]
PairShifts == {Vec(1, 0), Vec(-1, 0), Vec(0, 4), Vec(0, -4)}

Init ==
    /\ a = EmptyCollider
    /\ b = EmptyCollider
    /\ IdleMove /\ IdleCall /\ IdlePolygon

PushBackA(p) ==
    /\ Len(a.m_arr) < MaxLen
    /\ a' = PushBackOf(a, p)
    /\ UNCHANGED <<b, snap, moves, args, res, sample_collider, tranformed_collider, owner, hist>>

PushBackB(p) ==
    /\ Len(b.m_arr) < MaxLen
    /\ b' = PushBackOf(b, p)
    /\ UNCHANGED <<a, snap, moves, args, res, sample_collider, tranformed_collider, owner, hist>>

ClearA ==
    /\ a' = ClearOf(a)
    /\ UNCHANGED <<b, snap, moves, args, res, sample_collider, tranformed_collider, owner, hist>>

ClearB ==
    /\ b' = ClearOf(b)
    /\ UNCHANGED <<a, snap, moves, args, res, sample_collider, tranformed_collider, owner, hist>>

\* applyTransform with a translation that keeps every vertex on the grid.
ApplyTransformA(d) ==
    /\ a.m_arr # <<>>
    /\ \A i \in 1..Len(a.m_arr) : TransformPoint(Translation(d), a.m_arr[i]) \in PairGrid
    /\ a' = ApplyTransformOf(a, Translation(d))
    /\ UNCHANGED <<b, snap, moves, args, res, sample_collider, tranformed_collider, owner, hist>>

ApplyTransformB(d) ==
    /\ b.m_arr # <<>>
    /\ \A i \in 1..Len(b.m_arr) : TransformPoint(Translation(d), b.m_arr[i]) \in PairGrid
    /\ b' = ApplyTransformOf(b, Translation(d))
    /\ UNCHANGED <<a, snap, moves, args, res, sample_collider, tranformed_collider, owner, hist>>

Next ==
    \/ \E p \in PairGrid : PushBackA(p)
    \/ \E p \in PairGrid : PushBackB(p)
    \/ ClearA
    \/ ClearB
    \/ \E d \in PairShifts : ApplyTransformA(d)
    \/ \E d \in PairShifts : ApplyTransformB(d)

Spec == Init /\ [][Next]_vars

(***************************************************************************)
(* SpecMove: one collider under pushBack, clear and applyTransform with    *)
(* translations.  snap keeps each vertex as it was pushed, with the number *)
(* of translations that had been applied before it was pushed; moves keeps *)
(* the translations applied since the last clear.                          *)
(***************************************************************************)
MoveGrid == [x : {-2, 1}, y : {-1, 2}]
MoveShifts == {Vec(9 * Den, 0), Vec(-3, -3)}

InitMove ==
    /\ a = EmptyCollider
    /\ b = EmptyCollider
    /\ IdleMove /\ IdleCall /\ IdlePolygon

pushBack(p) ==
    /\ Len(a.m_arr) < MaxLen
    /\ a' = PushBackOf(a, p)
    /\ snap' = Append(snap, [p |-> p, at |-> Len(moves)])
    /\ UNCHANGED <<b, moves, args, res, sample_collider, tranformed_collider, owner, hist>>

clear ==
    /\ a' = ClearOf(a)
    /\ snap' = <<>>
    /\ moves' = <<>>
    /\ UNCHANGED <<b, args, res, sample_collider, tranformed_collider, owner, hist>>

applyTransform(d) ==
    /\ Len(moves) < MaxMoves
    /\ a' = ApplyTransformOf(a, Translation(d))
    /\ moves' = Append(moves, d)
    /\ UNCHANGED <<b, snap, args, res, sample_collider, tranformed_collider, owner, hist>>

NextMove ==
    \/ \E p \in MoveGrid : pushBack(p)
    \/ clear
    \/ \E d \in MoveShifts : applyTransform(d)

SpecMove == InitMove /\ [][NextMove]_vars

(***************************************************************************)
(* SpecNested: two colliders built by pushBack, the first from corner      *)
(* points of a 3 by 2 box, the second from points inside that box.         *)
(***************************************************************************)
OuterPts == {Vec(0, 0), Vec(3 * Den, 0), Vec(0, 2 * Den), Vec(3 * Den, 2 * Den)}
InnerPts == {Vec(2 * Den, 1), Vec(Den, 1), Vec(Den, Den), Vec(1, 1)}

NextNested ==
    \/ \E p \in OuterPts : PushBackA(p)
    \/ \E p \in InnerPts : PushBackB(p)
    \/ ClearA
    \/ ClearB

SpecNested == Init /\ [][NextNested]_vars

(***************************************************************************)
(* SpecLine: one call of Collider::lineIntersection.                       *)
(***************************************************************************)
LineGrid == [x : 0..3, y : 0..2]

InitLine ==
    /\ args \in [p1 : LineGrid, q1 : LineGrid, p2 : LineGrid, q2 : LineGrid]
    /\ res = <<>>
    /\ a = EmptyCollider
    /\ b = EmptyCollider
    /\ IdleMove /\ IdlePolygon

CallLineIntersection ==
    /\ res = <<>>
    /\ res' = <<lineIntersection(args.p1, args.q1, args.p2, args.q2)>>
    /\ UNCHANGED <<a, b, snap, moves, args, sample_collider, tranformed_collider, owner, hist>>

NextLine == CallLineIntersection

SpecLine == InitLine /\ [][NextLine]_vars

(***************************************************************************)
(* SpecRect: Collider::rectangle(size), then one call of contains(point).  *)
(***************************************************************************)
RectSides == {1, Den, MaxSide * Den}
RectCoords == (-Den)..((MaxSide + 1) * Den)

InitRect ==
    /\ args \in [size : [x : RectSides, y : RectSides], point : [x : RectCoords, y : RectCoords]]
    /\ res = <<>>
    /\ a = EmptyCollider
    /\ b = EmptyCollider
    /\ IdleMove /\ IdlePolygon

MakeRectangle ==
    /\ a = EmptyCollider
    /\ a' = rectangle(args.size)
    /\ UNCHANGED <<b, snap, moves, args, res, sample_collider, tranformed_collider, owner, hist>>

CallContains ==
    /\ a # EmptyCollider
    /\ res = <<>>
    /\ res' = <<contains(a, args.point)>>
    /\ UNCHANGED <<a, b, snap, moves, args, sample_collider, tranformed_collider, owner, hist>>

NextRect == MakeRectangle \/ CallContains

SpecRect == InitRect /\ [][NextRect]_vars

(***************************************************************************)
(* SpecPolygon: the sample and the transformed collider of a Polygon.      *)
(***************************************************************************)
RECURSIVE BuiltFrom(_, _, _)
BuiltFrom(c, arr, i) ==
    IF i > Len(arr) THEN c ELSE BuiltFrom(PushBackOf(c, arr[i]), arr, i + 1)

\* The collider that pushBack of arr[1], arr[2], ... builds.
Built(arr) == BuiltFrom(EmptyCollider, arr, 1)

SampleColliders ==
    {Built(s) : s \in UNION {[1..k -> MoveGrid] : k \in 0..2}} \cup {rectangle(Vec(Den, 2 * Den))}

Rotation90 == [m |-> <<0, -1, 1, 0>>, t |-> Vec(0, 0)]
Scaling2 == [m |-> <<2, 0, 0, 2>>, t |-> Vec(0, 0)]
OwnerTransforms ==
    {Identity, Translation(Vec(9 * Den, 0)), Translation(Vec(-3, 1)), Rotation90, Scaling2}

InitPolygon ==
    /\ sample_collider = EmptyCollider
    /\ tranformed_collider = EmptyCollider
    /\ owner = Identity
    /\ hist = NoHist
    /\ a = EmptyCollider
    /\ b = EmptyCollider
    /\ IdleMove /\ IdleCall

setSampleCollider(c) ==
    /\ sample_collider' = c
    /\ tranformed_collider' = c
    /\ hist' = [last |-> "setSampleCollider", before |-> sample_collider, updates |-> 0]
    /\ UNCHANGED <<a, b, snap, moves, args, res, owner>>

\* The owner's transform changes (GameObject; setPosition, rotate, ...).
SetOwnerTransform(t) ==
    /\ owner' = t
    /\ hist' = [hist EXCEPT !.last = "transform", !.before = sample_collider]
    /\ UNCHANGED <<a, b, snap, moves, args, res, sample_collider, tranformed_collider>>

\* Faulty variant: the copy of the sample is missing, so the transform is applied
\* to the collider the last update left.
AccumulatedCollider(sample, transformed, t) == ApplyTransformOf(transformed, t)

\* The value updateCollider() gives tranformed_collider.
UpdatedCollider(sample, transformed, t) == ApplyTransformOf(sample, t)

updateCollider ==
    /\ tranformed_collider' = UpdatedCollider(sample_collider, tranformed_collider, owner)
    /\ hist' = [last |-> "updateCollider", before |-> sample_collider,
                updates |-> Min(hist.updates + 1, MaxUpdates)]
    /\ UNCHANGED <<a, b, snap, moves, args, res, sample_collider, owner>>

update ==
    /\ tranformed_collider' = UpdatedCollider(sample_collider, tranformed_collider, owner)
    /\ hist' = [last |-> "update", before |-> sample_collider,
                updates |-> Min(hist.updates + 1, MaxUpdates)]
    /\ UNCHANGED <<a, b, snap, moves, args, res, sample_collider, owner>>

NextPolygon ==
    \/ \E c \in SampleColliders : setSampleCollider(c)
    \/ \E t \in OwnerTransforms : SetOwnerTransform(t)
    \/ updateCollider
    \/ update

SpecPolygon == InitPolygon /\ [][NextPolygon]_vars

(***************************************************************************)
(* Geometry the claims are stated against: exact, without the int          *)
(* conversion and without the bounding boxes.                              *)
(***************************************************************************)
Sign(v) == IF v = 0 THEN 0 ELSE IF v > 0 THEN 1 ELSE 2

ExactOrientation(p, q, r) == Sign(Cross(p, q, r))

\* The closed segments p1-q1 and p2-q2 have a point in common.
SegmentsMeet(p1, q1, p2, q2) ==
    LET o1 == ExactOrientation(p1, q1, p2)
        o2 == ExactOrientation(p1, q1, q2)
        o3 == ExactOrientation(p2, q2, p1)
        o4 == ExactOrientation(p2, q2, q1)
    IN  \/ (o1 # o2 /\ o3 # o4)
        \/ (o1 = 0 /\ isOnSegment(p1, p2, q1))
        \/ (o2 = 0 /\ isOnSegment(p1, q2, q1))
        \/ (o3 = 0 /\ isOnSegment(p2, p1, q2))
        \/ (o4 = 0 /\ isOnSegment(p2, q1, q2))

Xs(arr) == {arr[i].x : i \in 1..Len(arr)}
Ys(arr) == {arr[i].y : i \in 1..Len(arr)}
SetMin(S) == CHOOSE m \in S : \A v \in S : m <= v
SetMax(S) == CHOOSE m \in S : \A v \in S : m >= v

\* The tight axis-aligned box of the vertices; the zero box when there are none.
TightBox(arr) ==
    IF arr = <<>> THEN ZeroRect
    ELSE [left |-> SetMin(Xs(arr)), top |-> SetMin(Ys(arr)),
          width |-> SetMax(Xs(arr)) - SetMin(Xs(arr)),
          height |-> SetMax(Ys(arr)) - SetMin(Ys(arr))]

(***************************************************************************)
(* Claims about two colliders (Spec).                                      *)
(***************************************************************************)
NoCollisionWith(e, x) ==
    /\ \A p \in PairGrid \cup {Vec(0, 0)} : ~contains(e, p)
    /\ ~intersects(e, x)
    /\ ~intersects(x, e)
    /\ ~collides(e, x)
    /\ ~collides(x, e)

\* C2: a collider without vertices (fresh or cleared) contains no point, and
\* intersects and collides are false with it on either side, whatever the
\* other collider is.
C2_EmptyNeverCollides ==
    /\ (a.m_arr = <<>> => NoCollisionWith(a, b))
    /\ (b.m_arr = <<>> => NoCollisionWith(b, a))

\* C2 witness: an empty collider beside one whose box has positive area and
\* touches the origin, where the empty collider's box sits.
C2_Witness ==
    /\ a.m_arr = <<>>
    /\ Len(b.m_arr) = MaxLen
    /\ b.m_globalBounds.left < 0
    /\ b.m_globalBounds.left + b.m_globalBounds.width > 0
    /\ b.m_globalBounds.top < 0
    /\ b.m_globalBounds.top + b.m_globalBounds.height > 0

\* C3 (as claimed): for two non-empty colliders, intersects is true exactly
\* when some edge of one closed loop and some edge of the other satisfy
\* lineIntersection.
C3_IntersectsIffEdgePair ==
    (a.m_arr # <<>> /\ b.m_arr # <<>>) =>
        (intersects(a, b) <=> EdgePairIntersects(ClosedLoop(a.m_arr), ClosedLoop(b.m_arr)))

PositiveExtent(r) == r.left + r.width > r.left /\ r.top + r.height > r.top

C10_IntersectsSymmetric == intersects(a, b) = intersects(b, a)

\* C10 witness: two different colliders that intersect, one of them with
\* negative coordinates.
C10_Witness ==
    /\ a.m_arr # b.m_arr
    /\ Len(a.m_arr) >= 2 /\ Len(b.m_arr) >= 2
    /\ \E i \in 1..Len(a.m_arr) : a.m_arr[i].x < 0
    /\ intersects(a, b)
    /\ intersects(b, a)


(***************************************************************************)
(* Claims about one collider that is moved (SpecMove).                     *)
(***************************************************************************)
\* C1 (as claimed): the cached bounds are the tight box of the current
\* vertices (left = min x, top = min y, width = max x - min x, height =
\* max y - min y), and the zero box when there are no vertices.
C1_BoundsTight == a.m_globalBounds = TightBox(a.m_arr)

RECURSIVE SumFrom(_, _)
\* The sum of the translations ms[k+1], ..., ms[Len(ms)].
SumFrom(ms, k) ==
    IF k >= Len(ms) THEN Vec(0, 0)
    ELSE LET rest == SumFrom(ms, k + 1) IN
         Vec(ms[k + 1].x + rest.x, ms[k + 1].y + rest.y)

\* Where the i-th vertex must be: as pushed, plus every translation applied since.
Moved(i) ==
    LET d == SumFrom(moves, snap[i].at) IN Vec(snap[i].p.x + d.x, snap[i].p.y + d.y)

\* C8: applyTransform composes.  Every vertex is where it was pushed plus the
\* sum of all translations applied since, in the order pushed, and the cached
\* box is anchored at the least x and y of the moved vertices and encloses
\* each of them.
C8_TransformsCompose ==
    /\ Len(a.m_arr) = Len(snap)
    /\ \A i \in 1..Len(snap) : a.m_arr[i] = Moved(i)
    /\ \A i \in 1..Len(snap) :
        LET r == a.m_globalBounds IN
        /\ r.left <= Moved(i).x /\ Moved(i).x <= r.left + r.width
        /\ r.top <= Moved(i).y /\ Moved(i).y <= r.top + r.height
    /\ snap # <<>> =>
        LET r == a.m_globalBounds IN
        /\ \E i \in 1..Len(snap) : Moved(i).x = r.left
        /\ \E i \in 1..Len(snap) : Moved(i).y = r.top

\* C8 witness: two applyTransform(translate(9, 0)) calls on a collider of two
\* vertices, which is then 18 to the right of where it was built.
C8_Witness ==
    /\ moves = <<Vec(9 * Den, 0), Vec(9 * Den, 0)>>
    /\ Len(snap) = 2
    /\ snap[1].at = 0 /\ snap[2].at = 0
    /\ a.m_arr[1] = Vec(snap[1].p.x + 18 * Den, snap[1].p.y)
    /\ a.m_arr[2] = Vec(snap[2].p.x + 18 * Den, snap[2].p.y)


(***************************************************************************)
(* Claims about nested colliders (SpecNested).                             *)
(***************************************************************************)
Next1(arr, i) == IF i = Len(arr) THEN 1 ELSE i + 1

\* The turn of the loop at its first vertex.
Turn(arr) == ExactOrientation(arr[1], arr[2], arr[3])

\* At least three vertices, and the loop turns the same way, and does turn, at each.
StrictlyConvex(arr) ==
    /\ Len(arr) >= 3
    /\ Turn(arr) # 0
    /\ \A i \in 1..Len(arr) :
        ExactOrientation(arr[i], arr[Next1(arr, i)], arr[Next1(arr, Next1(arr, i))]) = Turn(arr)

\* p is strictly on the inner side of every edge of the convex loop arr.
StrictlyInside(p, arr) ==
    \A i \in 1..Len(arr) : ExactOrientation(arr[i], arr[Next1(arr, i)], p) = Turn(arr)

EdgesTouch(arr1, arr2) ==
    \E i \in 1..Len(arr1) : \E j \in 1..Len(arr2) :
        SegmentsMeet(arr1[i], arr1[Next1(arr1, i)], arr2[j], arr2[Next1(arr2, j)])

\* inner lies strictly inside outer; both are convex polygons; no edges in contact.
NestedIn(inner, outer) ==
    /\ StrictlyConvex(outer.m_arr)
    /\ StrictlyConvex(inner.m_arr)
    /\ \A k \in 1..Len(inner.m_arr) : StrictlyInside(inner.m_arr[k], outer.m_arr)
    /\ ~EdgesTouch(inner.m_arr, outer.m_arr)

\* C4 (as claimed): when convex b lies strictly inside convex a with no edge
\* of one touching an edge of the other, a.collides(b) is true and
\* b.collides(a) is false.
C4_CollidesOneDirectional ==
    NestedIn(b, a) => (collides(a, b) /\ ~collides(b, a))

(***************************************************************************)
(* Claims about lineIntersection (SpecLine).                               *)
(***************************************************************************)
\* C6 (as claimed): lineIntersection returns true exactly when the two
\* closed segments have a point in common.
C6_LineIntersectionExact ==
    res # <<>> => (res[1] <=> SegmentsMeet(args.p1, args.q1, args.p2, args.q2))

(***************************************************************************)
(* Claims about rectangle and contains (SpecRect).                         *)
(***************************************************************************)
InsideOpenRect(p, size) == 0 < p.x /\ p.x < size.x /\ 0 < p.y /\ p.y < size.y
OutsideClosedRect(p, size) == p.x < 0 \/ p.x > size.x \/ p.y < 0 \/ p.y > size.y

\* C7: rectangle(size).contains(p) is true for p strictly inside the
\* rectangle and false for p strictly outside the closed rectangle.
C7_RectangleContains ==
    res # <<>> =>
        /\ a.m_arr = <<Vec(0, 0), Vec(args.size.x, 0), args.size, Vec(0, args.size.y)>>
        /\ (InsideOpenRect(args.point, args.size) => res[1])
        /\ (OutsideClosedRect(args.point, args.size) => ~res[1])

\* C7 witness: rectangle({10, 10}) contains (5, 5).
C7_Witness ==
    /\ args.size = Vec(10 * Den, 10 * Den)
    /\ args.point = Vec(5 * Den, 5 * Den)
    /\ res = <<TRUE>>

(***************************************************************************)
(* Claims about Polygon (SpecPolygon).                                     *)
(***************************************************************************)
Updated == hist.last \in {"update", "updateCollider"}

\* C9: update() and updateCollider() leave the sample collider as it was,
\* and right after either the transformed collider is the sample mapped once
\* through the owner's current transform.
C9_UpdateFromSample ==
    Updated =>
        /\ sample_collider = hist.before
        /\ tranformed_collider =
               Built([i \in 1..Len(sample_collider.m_arr) |->
                          TransformPoint(owner, sample_collider.m_arr[i])])

\* C9 witness: a second update, under a transform that moves the sample, whose
\* result differs from applying that transform to the collider once more.
C9_Witness ==
    /\ Updated
    /\ hist.updates >= 2
    /\ Len(sample_collider.m_arr) >= 2
    /\ tranformed_collider # sample_collider
    /\ ApplyTransformOf(tranformed_collider, owner) # tranformed_collider

=============================================================================
